---- MODULE Spec2Model ----
(***************************************************************************)
(* A model of the plug kernel of Shirk (shirk.py): the hook tables, the    *)
(* plug lifecycle (load_plug, remove_plug, cmd_reload, shutdown,           *)
(* connectionLost) and the event dispatchers (event_command, event_raw and *)
(* the six simple events).                                                 *)
(*                                                                         *)
(* The kernel state is handled as a record K so that the methods of Shirk  *)
(* become operators K -> K that can be composed the way the code nests     *)
(* its calls (a command handler that reloads a plug, for instance).  The   *)
(* field exc holds the exception that is propagating ("" when none).       *)
(***************************************************************************)
EXTENDS Integers, Sequences, FiniteSets, TLC

\* ------------------------------------------------------------------ bounds
\* Plug instances that exist at a time: those the kernel holds, and those
\* made since the current inbound event came in.
MaxInst == 3
\* Reconnection attempts in a row that the model follows.
MaxFailures == 2
\* Calls of cleanup() on one instance that the model follows.
MaxCleanups == 2
\* Plug names given to one !reload command (argv[1:]).
MaxNames == 2

\* ------------------------------------------------------------- vocabulary
Event_command == "command"
Event_raw == "raw"
Event_addressed == "addressed"
Event_chanmsg == "chanmsg"
Event_private == "private"
Event_userjoined == "userjoined"
Event_usercreated == "usercreated"
Event_userremoved == "userremoved"

\* Shirk._simple_events
simple_events ==
    {Event_addressed, Event_chanmsg, Event_private,
     Event_userjoined, Event_usercreated, Event_userremoved}

\* The power an administrative command of Core asks for.
AdminPower == 10

NoExc == ""

\* ------------------------------------------------------------ plug classes
\* What `module.Plug` can be when load_plug imports plugs.<name>: the
\* classes of the repository (Core, Auth), a third-party plug "A" that
\* shares a command, a category and a raw code with them, and versions of a
\* plug whose code on disk is broken at the time of the (re)load.
\*   init_raises:    module.Plug(self, self.startingup) raises (an AuthPlug
\*                   that finds no plugs/Auth/users.json)
\*   cleanup_raises: the plug's cleanup() raises
\*   hooks:          in the order hook_events registers them
CorePlug ==
    [name |-> "Core", commands |-> {"plugs", "commands", "raw", "quit", "reload"},
     hooks |-> <<>>, rawhooks |-> {}, init_raises |-> FALSE, cleanup_raises |-> FALSE]

AuthPlug ==
    [name |-> "Auth", commands |-> {},
     hooks |-> <<Event_userjoined>>, rawhooks |-> {"330"},
     init_raises |-> FALSE, cleanup_raises |-> FALSE]

AuthPlugNoUsersFile == [AuthPlug EXCEPT !.init_raises = TRUE]

APlug ==
    [name |-> "A", commands |-> {"reload"},
     hooks |-> <<Event_userjoined>>, rawhooks |-> {"330"},
     init_raises |-> FALSE, cleanup_raises |-> FALSE]

APlugBadCleanup == [APlug EXCEPT !.cleanup_raises = TRUE]

\* plugs/Wiggly: private messages and the command approve
WigglyPlug ==
    [name |-> "Wiggly", commands |-> {"approve"},
     hooks |-> <<Event_private>>, rawhooks |-> {},
     init_raises |-> FALSE, cleanup_raises |-> FALSE]

\* declares a keyed kind as if it were a simple event
APlugBadHook == [APlug EXCEPT !.hooks = <<Event_userjoined, Event_command>>]

\* The classes by the name the model gives them.
Class(c) ==
    CASE c = "CorePlug" -> CorePlug
      [] c = "AuthPlug" -> AuthPlug
      [] c = "AuthPlugNoUsersFile" -> AuthPlugNoUsersFile
      [] c = "APlug" -> APlug
      [] c = "APlugBadCleanup" -> APlugBadCleanup
      [] c = "APlugBadHook" -> APlugBadHook
      [] c = "WigglyPlug" -> WigglyPlug

Classes ==
    {"CorePlug", "AuthPlug", "AuthPlugNoUsersFile", "APlug", "APlugBadCleanup",
     "APlugBadHook"}

PlugNames == {Class(c).name : c \in Classes}

\* importlib.import_module finds no module
NoModule == "NoModule"

\* The module of a plug when its code is in order.
Working(plugname) ==
    CHOOSE c \in Classes :
        /\ Class(c).name = plugname
        /\ ~Class(c).init_raises /\ ~Class(c).cleanup_raises
        /\ \A k \in DOMAIN Class(c).hooks : Class(c).hooks[k] \in simple_events

\* What import_module('plugs.' + plugname) can yield.
Modules(plugname) == {c \in Classes : Class(c).name = plugname} \cup {NoModule}

\* -------------------------------------------------------------- the state
VARIABLES
    plugs,        \* self.plugs: name -> instance (a dict)
    hooks,        \* self.hooks: event -> set of instances, or key -> set
    created,      \* instance -> its class, Free when there is no such instance
    cleanups,     \* instance -> number of cleanup() calls on it
    shuttingdown, \* self.factory.shuttingdown
    sent,         \* the lines sent since the current inbound event came in
    conn,         \* "connecting", "made", "signedon", "abandoned", "stopped"
    retries,      \* factory.retries
    maxRetries,   \* factory.maxRetries: config['reconn_tries']
    config,       \* config['plugs']
    last,         \* the last lifecycle call and how it ended
    pc,           \* "idle", or the dispatcher that is running, or "done"
    disp,         \* the dispatch in progress
    calls         \* instance -> handler invocations in this dispatch

vars == <<plugs, hooks, created, cleanups, shuttingdown, sent, conn, retries,
          maxRetries, config, last, pc, disp, calls>>

\* The kernel state as one value.
Kernel ==
    [plugs |-> plugs, hooks |-> hooks, created |-> created,
     cleanups |-> cleanups, shuttingdown |-> shuttingdown, sent |-> sent,
     last |-> last, exc |-> NoExc]

Commit(K) ==
    /\ plugs' = K.plugs
    /\ hooks' = K.hooks
    /\ created' = K.created
    /\ cleanups' = K.cleanups
    /\ shuttingdown' = K.shuttingdown
    /\ sent' = K.sent
    /\ last' = K.last

\* No instance has this identity.
Free == "free"

Range(f) == {f[x] : x \in DOMAIN f}

Instances == 1..MaxInst

\* The identity a new instance gets; MaxInst + 1 is beyond the bound.
NewInstance(K) ==
    IF \E i \in Instances : K.created[i] = Free
    THEN CHOOSE i \in Instances :
            K.created[i] = Free /\ \A j \in 1..(i - 1) : K.created[j] # Free
    ELSE MaxInst + 1

\* The model follows K only within its bounds.
InBounds(K) ==
    /\ DOMAIN K.created = Instances
    /\ \A i \in Instances : K.cleanups[i] <= MaxCleanups

\* The instances the kernel holds in self.plugs or in a hook table.
Held(K) ==
    {K.plugs[n] : n \in DOMAIN K.plugs}
    \cup UNION {K.hooks[ev] : ev \in DOMAIN K.hooks \ {"command", "raw"}}
    \cup UNION {K.hooks["command"][c] : c \in DOMAIN K.hooks["command"]}
    \cup UNION {K.hooks["raw"][c] : c \in DOMAIN K.hooks["raw"]}

\* Instances nothing refers to any more cease to exist.
Collect(K) ==
    [K EXCEPT !.created = [i \in Instances |-> IF i \in Held(K) THEN @[i] ELSE Free],
              !.cleanups = [i \in Instances |-> IF i \in Held(K) THEN @[i] ELSE 0]]

Raise(K, e) == [K EXCEPT !.exc = e]

\* `last` when no lifecycle call has been made yet.  op is "load", "remove"
\* or "reload"; old and new are the instances stored under the name before
\* and after the call; exc is what the call raised and stage the step of it
\* that raised; age is 0 for a call made while the current inbound event is
\* handled and 1 for a call made while the one before it was; module is what
\* the import of the load step found ("" when there was no load step).
NoLast ==
    [op |-> "none", name |-> "", old |-> 0, new |-> 0, exc |-> NoExc,
     stage |-> "", age |-> 0, module |-> "", ret |-> "", modules |-> <<>>]

\* The instance stored under a name, 0 when the name is not a key.
Active(K, plugname) ==
    IF plugname \in DOMAIN K.plugs THEN K.plugs[plugname] ELSE 0

\* The orders in which a dict with the keys S can be iterated.
Orders(S) ==
    {o \in [1..Cardinality(S) -> S] : \A i, j \in DOMAIN o : o[i] = o[j] => i = j}

\* load_plugs, before its loop: the empty tables.
EmptyHooks ==
    [ev \in simple_events \cup {Event_raw, Event_command} |->
        IF ev \in simple_events THEN {} ELSE <<>>]

\* The orders of self.plugs.iteritems() that make a difference: the order
\* matters only when some cleanup() raises and ends the loop.
ItemOrders(K) ==
    IF \E n \in DOMAIN K.plugs : Class(K.created[K.plugs[n]]).cleanup_raises
    THEN Orders(DOMAIN K.plugs)
    ELSE {CHOOSE o \in Orders(DOMAIN K.plugs) : TRUE}

\* The one element of a set of one; `The({e(x) : x \in {v}})` is e(v) with
\* v worked out once.
The(S) == CHOOSE x \in S : TRUE

\* The identities of instances are arbitrary: between two inbound events
\* the model numbers the instances by what they are (class, cleanups, being
\* the active instance, the table entries they are in), so that two kernels
\* that differ only in the identities are one state.
ClassOrder ==
    <<"CorePlug", "AuthPlug", "AuthPlugNoUsersFile", "APlug", "APlugBadCleanup",
      "APlugBadHook", "WigglyPlug">>

Slots ==
    <<<<"", "addressed">>, <<"", "chanmsg">>, <<"", "private">>,
      <<"", "userjoined">>, <<"", "usercreated">>, <<"", "userremoved">>,
      <<"command", "plugs">>, <<"command", "commands">>, <<"command", "raw">>,
      <<"command", "quit">>, <<"command", "reload">>, <<"raw", "330">>>>

InSlot(K, i, slot) ==
    IF slot[1] = "" THEN i \in K.hooks[slot[2]]
    ELSE slot[2] \in DOMAIN K.hooks[slot[1]] /\ i \in K.hooks[slot[1]][slot[2]]

RECURSIVE SlotBits(_, _, _)
SlotBits(K, i, k) ==
    IF k > Len(Slots) THEN 0
    ELSE (IF InSlot(K, i, Slots[k]) THEN 1 ELSE 0) + 2 * SlotBits(K, i, k + 1)

Signature(K, i) ==
    LET c == CHOOSE k \in DOMAIN ClassOrder : ClassOrder[k] = K.created[i]
        active == IF \E n \in DOMAIN K.plugs : K.plugs[n] = i THEN 1 ELSE 0
    IN ((c * (MaxCleanups + 2) + K.cleanups[i]) * 2 + active) * (2 ^ Len(Slots))
       + SlotBits(K, i, 1)

Ranks(sig) ==
    [i \in DOMAIN sig |->
        1 + Cardinality({j \in DOMAIN sig :
                \/ sig[j] > sig[i]
                \/ sig[j] = sig[i] /\ j < i})]

Renamed(K, rank) ==
    LET live(r) == \E i \in DOMAIN rank : rank[i] = r
        was(r) == CHOOSE i \in DOMAIN rank : rank[i] = r
        ren(S) == {rank[i] : i \in S}
    IN [K EXCEPT
          !.created = [r \in Instances |-> IF live(r) THEN K.created[was(r)] ELSE Free],
          !.cleanups = [r \in Instances |-> IF live(r) THEN K.cleanups[was(r)] ELSE 0],
          !.plugs = [n \in DOMAIN K.plugs |-> rank[K.plugs[n]]],
          !.hooks = [ev \in DOMAIN K.hooks |->
                        IF ev \in {"command", "raw"}
                        THEN [c \in DOMAIN K.hooks[ev] |-> ren(K.hooks[ev][c])]
                        ELSE ren(K.hooks[ev])]]

Renumber(K0) ==
    The({The({The({Renamed(K, rank) : rank \in {Ranks(sig)}}) :
                 sig \in {[i \in Held(K) |-> Signature(K, i)]}}) :
            K \in {Collect(K0)}})

\* ------------------------------------------------------------ hook tables
add_command(K, cmd, plug) ==
    LET h == K.hooks[Event_command]
    IN [K EXCEPT !.hooks[Event_command] =
            [c \in DOMAIN h \cup {cmd} |->
                (IF c \in DOMAIN h THEN h[c] ELSE {})
                \cup (IF c = cmd THEN {plug} ELSE {})]]

add_raw(K, cmd, plug) ==
    LET h == K.hooks[Event_raw]
    IN [K EXCEPT !.hooks[Event_raw] =
            [c \in DOMAIN h \cup {cmd} |->
                (IF c \in DOMAIN h THEN h[c] ELSE {})
                \cup (IF c = cmd THEN {plug} ELSE {})]]

\* `event in self.hooks` holds for Event.command and Event.raw too, whose
\* entries are dicts: dict has no add().
add_callback(K, event, plug) ==
    IF event \notin DOMAIN K.hooks THEN K
    ELSE IF event \in {Event_command, Event_raw} THEN Raise(K, "AttributeError")
    ELSE [K EXCEPT !.hooks[event] = @ \cup {plug}]

\* What add_callback returns when it returns: True when it registered the
\* plug, False when the event is no key of self.hooks.
add_callback_returns(K, event) ==
    IF event \in DOMAIN K.hooks THEN "True" ELSE "False"

\* ------------------------------------------------------------ the factory
\* config['reconn_tries'] when conf.json does not set it
DefaultReconnTries == 8
\* maxRetries is None: conf.json has "reconn_tries": null
NoMax == -1

\* ReconnectingClientFactory.retry, called by its clientConnectionLost and
\* clientConnectionFailed: counts the attempt and, unless maxRetries is
\* exceeded, schedules connector.connect().
retry(n, max) ==
    [retries |-> n + 1, scheduled |-> ~(max # NoMax /\ n + 1 > max)]

\* ReconnectingClientFactory.resetDelay: the value it gives self.retries.
resetDelay == 0

\* ShirkFactory.clientConnectionLost
clientConnectionLost(shutdown_flag, n, max) ==
    IF shutdown_flag THEN [conn |-> "stopped", retries |-> n]
    ELSE The({[conn |-> IF r.scheduled THEN "connecting" ELSE "abandoned",
               retries |-> r.retries] : r \in {retry(n, max)}})

\* ShirkFactory.clientConnectionFailed
clientConnectionFailed(n, max) ==
    The({[conn |-> IF max # NoMax /\ r.retries > max THEN "stopped"
                   ELSE IF r.scheduled THEN "connecting" ELSE "abandoned",
          retries |-> r.retries] : r \in {retry(n, max)}})

\* ---------------------------------------------------------- plug lifecycle
\* Plug.cleanup(): clears self.core (see the comment in cmd_reload), unless
\* the plug's own cleanup code raises.
cleanup(K, plug) ==
    [K EXCEPT !.cleanups[plug] = @ + 1,
              !.exc = IF Class(K.created[plug]).cleanup_raises
                      THEN "CleanupError" ELSE NoExc]

\* self.core of the instance is None: cleanup() has run on it.
cleared(K, plug) ==
    K.cleanups[plug] > 0 /\ ~Class(K.created[plug]).cleanup_raises

RECURSIVE hook_commands(_, _, _)
hook_commands(K, cmds, plug) ==
    IF cmds = {} THEN K
    ELSE LET cmd == CHOOSE c \in cmds : TRUE
         IN The({hook_commands(K1, cmds \ {cmd}, plug) :
                    K1 \in {add_command(K, cmd, plug)}})

RECURSIVE hook_callbacks(_, _, _)
hook_callbacks(K, evs, plug) ==
    IF evs = <<>> \/ K.exc # NoExc THEN K
    ELSE The({hook_callbacks(K1, Tail(evs), plug) :
                 K1 \in {add_callback(K, Head(evs), plug)}})

RECURSIVE hook_raws(_, _, _)
hook_raws(K, cmds, plug) ==
    IF cmds = {} \/ K.exc # NoExc THEN K
    ELSE LET cmd == CHOOSE c \in cmds : TRUE
         IN The({hook_raws(K1, cmds \ {cmd}, plug) : K1 \in {add_raw(K, cmd, plug)}})

\* Plug.hook_events(): the plug asks for its commands, hooks and rawhooks.
hook_events(K, plug) ==
    LET class == Class(K.created[plug])
    IN The({The({hook_raws(K2, class.rawhooks, plug) :
                    K2 \in {hook_callbacks(K1, class.hooks, plug)}}) :
               K1 \in {hook_commands(K, class.commands, plug)}})

\* load_plug as it would be with the import wrapped in try/except ImportError
\* and a log line: a missing module is passed over in silence.
load_plug_swallows(K, plugname, module) ==
    IF module = NoModule THEN K
    ELSE IF Class(module).init_raises THEN Raise(K, "IOError")
    ELSE The({hook_events([K EXCEPT !.created = (plug :> module) @@ @,
                                    !.cleanups = (plug :> 0) @@ @,
                                    !.plugs = (plugname :> plug) @@ @],
                          plug) :
                 plug \in {NewInstance(K)}})

\* Shirk.load_plug, with what the import finds on disk.
load_plug(K, plugname, module) ==
    IF module = NoModule THEN Raise(K, "ImportError")
    ELSE IF Class(module).init_raises THEN Raise(K, "IOError")
    ELSE The({hook_events([K EXCEPT !.created = (plug :> module) @@ @,
                                    !.cleanups = (plug :> 0) @@ @,
                                    !.plugs = (plugname :> plug) @@ @],
                          plug) :
                 plug \in {NewInstance(K)}})

\* The discard loops of remove_plug without the one over self.hooks[Event.raw].
discard_all_but_raw(h, plug) ==
    [ev \in DOMAIN h |->
        IF ev = Event_command
        THEN [cmd \in DOMAIN h[ev] |-> h[ev][cmd] \ {plug}]
        ELSE IF ev = Event_raw THEN h[ev]
        ELSE h[ev] \ {plug}]

\* The three discard loops of remove_plug.
discard_all(h, plug) ==
    [ev \in DOMAIN h |->
        IF ev \in {Event_command, Event_raw}
        THEN [cmd \in DOMAIN h[ev] |-> h[ev][cmd] \ {plug}]
        ELSE h[ev] \ {plug}]

\* remove_plug as it would be with self.plugs.pop(plugname, None): a name
\* that is not loaded is passed over in silence.
remove_plug_quiet(K, plugname) ==
    IF plugname \notin DOMAIN K.plugs THEN K
    ELSE The({IF K1.exc # NoExc THEN K1
              ELSE [K1 EXCEPT !.hooks = discard_all(@, K.plugs[plugname]),
                              !.plugs = [n \in DOMAIN @ \ {plugname} |-> @[n]]] :
                 K1 \in {cleanup(K, K.plugs[plugname])}})

\* Shirk.remove_plug
remove_plug(K, plugname) ==
    IF plugname \notin DOMAIN K.plugs THEN Raise(K, "KeyError")
    ELSE The({IF K1.exc # NoExc THEN K1
              ELSE [K1 EXCEPT !.hooks = discard_all(@, K.plugs[plugname]),
                              !.plugs = [n \in DOMAIN @ \ {plugname} |-> @[n]]] :
                 K1 \in {cleanup(K, K.plugs[plugname])}})

\* The `for name, plug in self.plugs.iteritems(): plug.cleanup()` loop of
\* shutdown and connectionLost, in the order the dict yields its items.
RECURSIVE cleanup_all(_, _)
cleanup_all(K, order) ==
    IF order = <<>> \/ K.exc # NoExc THEN K
    ELSE The({cleanup_all(K1, Tail(order)) :
                 K1 \in {cleanup(K, K.plugs[Head(order)])}})

\* Shirk.shutdown
shutdown(K, order) ==
    The({IF K1.exc # NoExc THEN K1
         ELSE [K1 EXCEPT !.shuttingdown = TRUE, !.sent = Append(@, "QUIT")] :
            K1 \in {cleanup_all(K, order)}})

\* A call of core.shutdown(msg) by a plug, and the record of it.
Shutdown(K, order) ==
    The({[K1 EXCEPT !.last = [NoLast EXCEPT !.op = "shutdown", !.exc = K1.exc]] :
            K1 \in {shutdown(K, order)}})

\* Shirk.connectionLost: nothing but AttributeError is caught.
connectionLost(K, order) == cleanup_all(K, order)

\* The loop body of cmd_reload without its `except KeyError`: the KeyError
\* of remove_plug ends the command.
reload_one_strict(K, self, plugname, module) ==
    IF cleared(K, self) THEN Raise(K, "AttributeError")
    ELSE The({The({[(IF L.exc = "ImportError"
                     THEN [L EXCEPT !.exc = NoExc, !.sent = Append(@, "PRIVMSG")]
                     ELSE L)
                       EXCEPT !.last = [op |-> "reload", name |-> plugname,
                                        old |-> Active(K, plugname),
                                        new |-> Active(L, plugname),
                                        exc |-> L.exc,
                                        stage |-> IF L.exc = NoExc THEN ""
                                                  ELSE IF R.exc = NoExc
                                                       THEN "load" ELSE "remove",
                                        age |-> 0, ret |-> "",
                                        modules |-> <<>>,
                                        module |-> IF R.exc = NoExc
                                                   THEN module ELSE ""]] :
                      L \in {IF R.exc # NoExc THEN R
                             ELSE load_plug(R, plugname, module)}}) :
                 R \in {remove_plug(K, plugname)}})

\* The body of the loop of CorePlug.cmd_reload for one plugname.
reload_one(K, self, plugname, module) ==
    IF cleared(K, self) THEN Raise(K, "AttributeError")
    ELSE The({The({[(IF L.exc = "ImportError"
                     THEN [L EXCEPT !.exc = NoExc, !.sent = Append(@, "PRIVMSG")]
                     ELSE L)
                       EXCEPT !.last = [op |-> "reload", name |-> plugname,
                                        old |-> Active(K, plugname),
                                        new |-> Active(L, plugname),
                                        exc |-> L.exc,
                                        stage |-> IF L.exc = NoExc THEN ""
                                                  ELSE IF R.exc \in {NoExc, "KeyError"}
                                                       THEN "load" ELSE "remove",
                                        age |-> 0, ret |-> "",
                                        modules |-> <<>>,
                                        module |-> IF R.exc \in {NoExc, "KeyError"}
                                                   THEN module ELSE ""]] :
                      L \in {IF R.exc = "KeyError" THEN load_plug(K, plugname, module)
                             ELSE IF R.exc # NoExc THEN R
                             ELSE load_plug(R, plugname, module)}}) :
                 R \in {remove_plug(K, plugname)}})

RECURSIVE reload_loop(_, _, _, _)
reload_loop(K, self, names, modules) ==
    IF names = <<>> \/ K.exc # NoExc THEN K
    ELSE The({reload_loop(K1, self, Tail(names), Tail(modules)) :
                 K1 \in {reload_one(K, self, Head(names), Head(modules))}})

\* cmd_reload without its test of the source's power.
cmd_reload_for_all(K, self, power, names, modules) ==
    reload_loop(K, self, names, modules)

\* CorePlug.cmd_reload
cmd_reload(K, self, power, names, modules) ==
    IF power >= AdminPower THEN reload_loop(K, self, names, modules) ELSE K

\* CorePlug.cmd_quit
cmd_quit(K, self, power, order) ==
    IF power >= AdminPower
    THEN IF cleared(K, self) THEN Raise(K, "AttributeError")
         ELSE Shutdown(K, order)
    ELSE K

\* CorePlug.cmd_raw
cmd_raw(K, self, power) ==
    IF power >= AdminPower
    THEN IF cleared(K, self) THEN Raise(K, "AttributeError")
         ELSE [K EXCEPT !.sent = Append(@, "RAW")]
    ELSE K

\* Shirk.load_plugs: the tables are made anew, then the configured plugs are
\* loaded; only ImportError is caught.
RECURSIVE load_configured(_, _, _)
load_configured(K, names, modules) ==
    IF names = <<>> \/ K.exc # NoExc THEN K
    ELSE The({load_configured(IF L.exc = "ImportError"
                              THEN [L EXCEPT !.exc = NoExc] ELSE L,
                              Tail(names), Tail(modules)) :
                 L \in {load_plug(K, Head(names), Head(modules))}})

\* config['plugs'], as the default configuration has it
ConfigPlugs == <<"Core", "Auth">>

load_plugs(K, names, modules) ==
    load_configured([K EXCEPT !.plugs = <<>>, !.hooks = EmptyHooks],
                    names, modules)

\* The modules the imports of a list of names can find.
ModuleLists(names) ==
    {ms \in [DOMAIN names -> Classes \cup {NoModule}] :
        \A i \in DOMAIN names : ms[i] \in Modules(names[i])}

\* --------------------------------------------------------------- handlers
\* What a handler does when it is invoked.  "run" is the code of the
\* repository's handler; "raise" is a handler that fails (self.users[source]
\* of an unknown nickname, params[1] of a short reply); the other effects
\* are those of the third-party plug A, whose handlers of a raw code and of
\* a simple event use the services the kernel gives to plugs.
Effect(do, name, module) == [do |-> do, name |-> name, module |-> module]

Effects(class, kind) ==
    IF class.name = "A"
    THEN {Effect(d, "", NoModule) : d \in {"return", "raise"}}
         \cup IF kind = Event_command THEN {}
              ELSE {Effect("shutdown", "", NoModule)}
                   \cup {Effect("remove", n, NoModule) : n \in PlugNames}
                   \cup {Effect("load", n, Working(n)) : n \in PlugNames}
    ELSE {Effect(d, "", NoModule) : d \in {"run", "raise"}}

WithLast(K0, K1, op, name, module) ==
    The({[K EXCEPT !.last = [op |-> op, name |-> name, old |-> Active(K0, name),
                             new |-> Active(K, name), exc |-> K.exc,
                             stage |-> IF K.exc = NoExc THEN "" ELSE op,
                             age |-> 0, module |-> module, ret |-> "",
                             modules |-> <<>>]] :
            K \in {K1}})

\* A handler of the third-party plug A.
handle_A(K, self, eff, order) ==
    CASE eff.do = "return" -> K
      [] eff.do = "raise" -> Raise(K, "HandlerFault")
      [] cleared(K, self) -> Raise(K, "AttributeError")
      [] eff.do = "shutdown" -> Shutdown(K, order)
      [] eff.do = "remove" ->
            WithLast(K, remove_plug(K, eff.name), "remove", eff.name, "")
      [] eff.do = "load" ->
            WithLast(K, load_plug(K, eff.name, eff.module), "load", eff.name,
                     eff.module)

\* Plug.handle_command of a Core instance: cmd_<argv[0]>.
handle_Core(K, self, cmd, power, names, modules, order) ==
    CASE cmd = "reload" -> cmd_reload(K, self, power, names, modules)
      [] cmd = "quit" -> cmd_quit(K, self, power, order)
      [] cmd = "raw" -> cmd_raw(K, self, power)
      [] OTHER -> [K EXCEPT !.sent = Append(@, "PRIVMSG")]

\* The handler of instance `plug` for the event being dispatched.
handle(K, plug, d, eff, modules, order) ==
    LET class == Class(K.created[plug])
    IN IF eff.do = "raise" THEN Raise(K, "HandlerFault")
       ELSE IF class.name = "A" THEN handle_A(K, plug, eff, order)
       ELSE IF class.name = "Core"
            THEN handle_Core(K, plug, d.key, d.power, d.names, modules, order)
       ELSE K

\* ---------------------------------------------------------------- actions
\* No PRIVMSG line is being handled.  Of a line: whom it is for, what its
\* text starts with, the dispatches privmsg and lineReceived have yet to
\* make (todo) and those they have made before the one under way (log).
NoLine == [target |-> "", text |-> "", cmd |-> "", todo |-> <<>>, log |-> <<>>]

NoDisp ==
    [kind |-> "", key |-> "", power |-> 0, names |-> <<>>, snap |-> {},
     to_call |-> {}, used |-> 0, exc |-> NoExc, faulty |-> 0, line |-> NoLine]

NoCalls == [i \in Instances |-> 0]

NoInstances == [i \in Instances |-> Free]

\* The factory as ShirkFactory.__init__ leaves it, reactor.connectTCP called.
Configured(reconn_tries, plugnames) ==
    /\ plugs = <<>>
    /\ hooks = EmptyHooks
    /\ created = NoInstances
    /\ cleanups = NoCalls
    /\ shuttingdown = FALSE
    /\ sent = <<>>
    /\ conn = "connecting"
    /\ retries = 0
    /\ maxRetries = reconn_tries
    /\ config = plugnames
    /\ last = NoLast
    /\ pc = "idle"
    /\ disp = NoDisp
    /\ calls = NoCalls

\* The default configuration.
Init == Configured(DefaultReconnTries, ConfigPlugs)

\* Shirk is signed on and waits for an inbound event.  Once QUIT has been
\* sent the server closes the link: connectionLost is what comes next.
Idle == pc = "idle" /\ conn = "signedon" /\ ~shuttingdown

\* Shirk.signedOn, the imports finding one of the lists of modules.
SignOn(lists) ==
    /\ pc = "idle" /\ conn = "made"
    /\ \E modules \in lists :
          \E K \in {load_plugs(Kernel, config, modules)} :
             InBounds(K)
             /\ Commit([K EXCEPT !.last = [NoLast EXCEPT !.op = "load_plugs",
                                                         !.exc = K.exc,
                                                         !.modules = modules]])
    /\ conn' = "signedon"
    /\ UNCHANGED <<retries, maxRetries, config>>
    /\ UNCHANGED <<pc, disp, calls>>

SignedOn == SignOn(ModuleLists(config))

\* A plug asks the kernel to load a plug, outside of any dispatch.
LoadPlug ==
    /\ Idle
    /\ \E plugname \in PlugNames : \E module \in Modules(plugname) :
          \E K \in {WithLast(Kernel, load_plug(Kernel, plugname, module),
                              "load", plugname, module)} :
             InBounds(K) /\ Commit(K)
    /\ pc' = "done"
    /\ UNCHANGED <<conn, retries, maxRetries, config, disp, calls>>

\* A plug asks the kernel to remove a plug, outside of any dispatch.
RemovePlug ==
    /\ Idle
    /\ \E plugname \in PlugNames :
          \E K \in {WithLast(Kernel, remove_plug(Kernel, plugname),
                              "remove", plugname, "")} :
             InBounds(K) /\ Commit(K)
    /\ pc' = "done"
    /\ UNCHANGED <<conn, retries, maxRetries, config, disp, calls>>

\* Shirk.connectionLost, then ShirkFactory.clientConnectionLost
ConnectionLost ==
    /\ pc = "idle" /\ conn \in {"made", "signedon"}
    /\ \E order \in ItemOrders(Kernel) :
          \E K \in {connectionLost(Kernel, order)} :
             InBounds(K) /\ Commit([K EXCEPT !.last = NoLast])
    /\ \E F \in {clientConnectionLost(shuttingdown, retries, maxRetries)} :
          conn' = F.conn /\ retries' = F.retries
    /\ UNCHANGED <<maxRetries, config, pc, disp, calls>>

\* The connection attempt succeeds: ShirkFactory.buildProtocol and
\* Shirk.connectionMade.  A new Shirk; after a reconnect the plugs of the old
\* one are out of reach.
ConnectionMade ==
    /\ conn = "connecting"
    /\ plugs' = <<>> /\ hooks' = EmptyHooks
    /\ created' = NoInstances /\ cleanups' = NoCalls
    /\ sent' = <<>> /\ last' = NoLast /\ conn' = "made"
    /\ retries' = resetDelay
    /\ UNCHANGED <<maxRetries, config, shuttingdown, pc, disp, calls>>

\* The connection attempt fails: ShirkFactory.clientConnectionFailed.
ConnectFailed ==
    /\ conn = "connecting" /\ retries < MaxFailures
    /\ \E F \in {clientConnectionFailed(retries, maxRetries)} :
          conn' = F.conn /\ retries' = F.retries
    /\ UNCHANGED <<plugs, hooks, created, cleanups, shuttingdown, sent, last,
                   maxRetries, config, pc, disp, calls>>

\* The events that come in: the commands, raw codes and simple events some
\* plug can hook, and one of each that no plug hooks.  The power of the
\* source and the names in argv[1:] are read by the commands of Core alone.
Commands == {"reload", "quit", "raw", "plugs", "nope"}
AdminCommands == {"reload", "quit", "raw"}
RawCodes == {"330", "001"}
SimpleEvents == {Event_userjoined, Event_private}
Powers == {0, AdminPower}
NameLists == UNION {[1..n -> PlugNames] : n \in 0..MaxNames}

\* What one turn of a dispatch loop can do with the kernel: the handler of
\* `plug` runs to its end.
Invoked(plug, d) ==
    {K \in {handle(Kernel, plug, d, eff, modules, order) :
               eff \in Effects(Class(created[plug]), d.kind),
               modules \in ModuleLists(d.names),
               order \in ItemOrders(Kernel)} : InBounds(K)}

\* The dispatch is over: the loop has ended or an exception has left it.
Finish(d) ==
    /\ pc' = "done"
    /\ disp' = d
    /\ UNCHANGED <<plugs, hooks, created, cleanups, shuttingdown, sent, last, calls>>

\* event_command and event_raw iterate a copy of the subscriber set
\* (to_call = set(...)); the simple events iterate the set itself.
Copied(kind) == kind \in {Event_command, Event_raw}

\* The subscriber set of the dispatch d as kernel K has it now.
Subscribers(K, d) ==
    IF d.kind \in simple_events THEN K.hooks[d.key]
    ELSE IF d.key \in DOMAIN K.hooks[d.kind] THEN K.hooks[d.kind][d.key]
    ELSE {}

\* One turn of `for plug in to_call` (event_command, event_raw) or of
\* `for plug in self.hooks[ev]` (the simple events), and the step of the
\* iterator that follows it.  d.to_call is what the iterator has yet to
\* yield, d.faulty the instance whose handler raised.  The iterator of a set
\* raises RuntimeError when the set has changed its size since the iterator
\* was made (d.used); an element added meanwhile lies before or after the
\* iterator's position in the table.
Turn(d) ==
    \E plug \in d.to_call : \E K \in Invoked(plug, d) :
       \E ahead \in IF Copied(d.kind) THEN {{}}
                    ELSE SUBSET (Subscribers(K, d) \ Subscribers(Kernel, d)) :
          LET rest == IF Copied(d.kind) THEN d.to_call \ {plug}
                      ELSE ((d.to_call \ {plug}) \cap Subscribers(K, d)) \cup ahead
              exc == IF K.exc # NoExc THEN K.exc
                     ELSE IF /\ ~Copied(d.kind)
                             /\ Cardinality(Subscribers(K, d)) # d.used
                          THEN "RuntimeError"
                     ELSE NoExc
          IN /\ Commit(K)
             /\ calls' = [calls EXCEPT ![plug] = @ + 1]
             /\ disp' = [d EXCEPT !.to_call = rest, !.exc = exc,
                                  !.faulty = IF K.exc # NoExc THEN plug ELSE 0]
             /\ pc' = IF exc # NoExc \/ rest = {} THEN "done" ELSE "dispatch"

\* Shirk.event_command: the subscriber set is copied, then iterated.
EventCommand ==
    /\ Idle
    /\ \E cmd \in Commands, power \in Powers, names \in NameLists :
          /\ cmd \notin AdminCommands => power = 0
          /\ cmd # "reload" => names = <<>>
          /\ \E d \in {[NoDisp EXCEPT !.kind = Event_command, !.key = cmd,
                                      !.power = power, !.names = names]} :
                IF cmd \in DOMAIN hooks[Event_command]
                   /\ hooks[Event_command][cmd] # {}
                THEN Turn([d EXCEPT !.snap = hooks[Event_command][cmd],
                                    !.to_call = hooks[Event_command][cmd],
                                    !.used = Cardinality(hooks[Event_command][cmd])])
                ELSE Finish(d)
    /\ UNCHANGED <<conn, retries, maxRetries, config>>

\* Shirk.event_raw
EventRaw ==
    /\ Idle
    /\ \E code \in RawCodes :
          \E d \in {[NoDisp EXCEPT !.kind = Event_raw, !.key = code]} :
             IF code \in DOMAIN hooks[Event_raw] /\ hooks[Event_raw][code] # {}
             THEN Turn([d EXCEPT !.snap = hooks[Event_raw][code],
                                 !.to_call = hooks[Event_raw][code],
                                 !.used = Cardinality(hooks[Event_raw][code])])
             ELSE Finish(d)
    /\ UNCHANGED <<conn, retries, maxRetries, config>>

\* event_addressed, event_chanmsg, event_private, event_userjoined,
\* event_usercreated, event_userremoved: the live set self.hooks[ev] is
\* iterated.
EventSimple ==
    /\ Idle
    /\ \E ev \in SimpleEvents :
          \E d \in {[NoDisp EXCEPT !.kind = ev, !.key = ev, !.snap = hooks[ev],
                                   !.to_call = hooks[ev],
                                   !.used = Cardinality(hooks[ev])]} :
             IF hooks[ev] # {} THEN Turn(d) ELSE Finish(d)
    /\ UNCHANGED <<conn, retries, maxRetries, config>>

\* The next turn of the loop of a dispatch that is under way.
CallNext ==
    /\ pc = "dispatch"
    /\ Turn(disp)
    /\ UNCHANGED <<conn, retries, maxRetries, config>>

\* What is kept of `last` when the next inbound event comes in: a reload
\* that replaced an instance by a new one.
Carried(K) ==
    IF /\ K.last.op = "reload" /\ K.last.exc = NoExc /\ K.last.age = 0
       /\ K.last.old # 0 /\ K.last.new # 0
    THEN [K.last EXCEPT !.old = 0, !.new = Active(K, K.last.name), !.age = 1]
    ELSE NoLast

\* The call returns to the callback that delivered the event.
Return ==
    /\ pc = "done" /\ disp.line.todo = <<>>
    /\ \E K \in {Renumber(Kernel)} :
          Commit([K EXCEPT !.last = Carried(K), !.sent = <<>>])
    /\ pc' = "idle" /\ disp' = NoDisp /\ calls' = NoCalls
    /\ UNCHANGED <<conn, retries, maxRetries, config>>

Next ==
    \/ SignedOn
    \/ LoadPlug
    \/ RemovePlug
    \/ ConnectionLost
    \/ ConnectionMade
    \/ ConnectFailed
    \/ EventCommand
    \/ EventRaw
    \/ EventSimple
    \/ CallNext
    \/ Return

Spec == Init /\ [][Next]_vars

\* ------------------------------------- the factory under other reconn_tries
\* Values of "reconn_tries" in conf.json.
RetryLimits == {NoMax, 0, 1}

\* The bot with the plugs of its configuration and those its admins reload,
\* under !commands and the events of its connection.
NextSupervisor ==
    \/ ConnectionMade
    \/ ConnectFailed
    \/ SignedOn
    \/ ConnectionLost
    \/ EventCommand
    \/ CallNext
    \/ Return

SpecSupervisor ==
    (\E tries \in RetryLimits : Configured(tries, ConfigPlugs))
    /\ [][NextSupervisor]_vars

\* ------------------------------------------- startup under other plug lists
\* Values of "plugs" in conf.json: lists of plug names without repetition.
PlugConfigs == UNION {Orders(S) : S \in SUBSET PlugNames}

\* The bot connects, signs on and loses its connection.
NextStartup ==
    \/ ConnectionMade
    \/ ConnectFailed
    \/ SignedOn
    \/ ConnectionLost

SpecStartup ==
    (\E plugnames \in PlugConfigs : Configured(DefaultReconnTries, plugnames))
    /\ [][NextStartup]_vars

\* ------------------------------------------------------ one PRIVMSG line
\* The bot runs Core and Wiggly.
LinePlugs == <<"Core", "Wiggly">>
LineModules == <<"CorePlug", "WigglyPlug">>

SignedOnLine == SignOn({LineModules})

\* What the text of a message starts with: the command prefix (with more
\* after it), the bot's nickname, both (a prefix the nickname starts with),
\* or neither.
Texts == {"prefix", "nick", "both", "plain"}
LineCommands == {"approve", "quit", "nope"}

\* A dispatch to be made: event_command / event_raw by kind and key, the
\* simple events by their name.
Due(kind, key) == [kind |-> kind, key |-> key]

\* The dispatches Shirk.privmsg makes after the first, then the one of
\* lineReceived (self._registered holds once signed on).
AfterCategory(text, cmd) ==
    (IF text \in {"prefix", "both"} THEN <<Due(Event_command, cmd)>>
     ELSE IF text = "nick" THEN <<Due(Event_addressed, Event_addressed)>>
     ELSE <<>>)
    \o <<Due(Event_raw, "PRIVMSG")>>

\* The dispatch `due` begins, as part d of the handling of a line.
Begin(d, due) ==
    \E S \in {Subscribers(Kernel, [kind |-> due.kind, key |-> due.key])} :
       \E d1 \in {[d EXCEPT !.kind = due.kind, !.key = due.key, !.snap = S,
                             !.to_call = S, !.used = Cardinality(S),
                             !.exc = NoExc, !.faulty = 0]} :
          IF S # {} THEN Turn(d1)
          ELSE Finish(d1)

\* lineReceived of a PRIVMSG: handleCommand calls privmsg, which begins
\* with event_private or event_chanmsg.
PrivmsgLine ==
    /\ Idle
    /\ \E target \in {Event_private, Event_chanmsg}, text \in Texts,
          cmd \in LineCommands, power \in Powers :
          /\ text \in {"nick", "plain"} => cmd = "nope" /\ power = 0
          /\ cmd \notin AdminCommands => power = 0
          /\ Begin([NoDisp EXCEPT !.power = power,
                                  !.line = [target |-> target, text |-> text,
                                            cmd |-> cmd,
                                            todo |-> AfterCategory(text, cmd),
                                            log |-> <<>>]],
                   Due(target, target))
    /\ UNCHANGED <<conn, retries, maxRetries, config>>

\* The dispatch under way is over and the line has more to come.  An
\* exception that left a dispatch of privmsg is caught and logged by
\* handleCommand: what is left of privmsg is skipped and lineReceived goes
\* on to event_raw.
NextDispatch ==
    /\ pc = "done" /\ disp.line.todo # <<>>
    /\ \E due \in {IF disp.exc # NoExc
                    THEN SelectSeq(disp.line.todo, LAMBDA x : x.kind = Event_raw)
                    ELSE disp.line.todo} :
          Begin([disp EXCEPT !.line.todo = Tail(due),
                             !.line.log = Append(@, [kind |-> disp.kind,
                                                     exc |-> disp.exc])],
                Head(due))
    /\ UNCHANGED <<conn, retries, maxRetries, config>>

\* With Core and Wiggly no entry has two subscribers: every dispatch loop
\* is over after its first turn.
NextLine ==
    \/ ConnectionMade
    \/ SignedOnLine
    \/ PrivmsgLine
    \/ NextDispatch
    \/ Return

SpecLine == Configured(DefaultReconnTries, LinePlugs) /\ [][NextLine]_vars

\* ------------------------------------------------- the registry on its own
\* The values a plug can pass as `event`: categories, the two keyed kinds,
\* and a value that is no key of self.hooks.
NoSuchEvent == "nosuchevent"
EventValues == SimpleEvents \cup {Event_command, Event_raw, NoSuchEvent}

\* One call of a registration method, with what it raised or returned.
Registered(K, op, key, plug, ret) ==
    [K EXCEPT !.last = [NoLast EXCEPT !.op = op, !.name = key, !.new = plug,
                                      !.exc = K.exc,
                                      !.ret = IF K.exc = NoExc THEN ret ELSE ""]]

\* A loaded plug calls self.core.add_callback(event, self).
AddCallback ==
    /\ Idle
    /\ \E plug \in Range(plugs) : \E event \in EventValues :
          Commit(Registered(add_callback(Kernel, event, plug), "add_callback",
                            event, plug, add_callback_returns(Kernel, event)))
    /\ UNCHANGED <<conn, retries, maxRetries, config, pc, disp, calls>>

\* A loaded plug calls self.core.add_command(cmd, self).
AddCommand ==
    /\ Idle
    /\ \E plug \in Range(plugs) : \E cmd \in AdminCommands :
          Commit(Registered(add_command(Kernel, cmd, plug), "add_command",
                            cmd, plug, ""))
    /\ UNCHANGED <<conn, retries, maxRetries, config, pc, disp, calls>>

\* A loaded plug calls self.core.add_raw(cmd, self).
AddRaw ==
    /\ Idle
    /\ \E plug \in Range(plugs) : \E cmd \in RawCodes :
          Commit(Registered(add_raw(Kernel, cmd, plug), "add_raw",
                            cmd, plug, ""))
    /\ UNCHANGED <<conn, retries, maxRetries, config, pc, disp, calls>>

NextRegistry ==
    \/ ConnectionMade
    \/ SignedOn
    \/ AddCallback
    \/ AddCommand
    \/ AddRaw

SpecRegistry == Init /\ [][NextRegistry]_vars

\* ----------------------------------------------------------------- claims

\* The class declares an interest in the table entry `slot`.
Declares(class, slot) ==
    CASE slot[1] = Event_command -> slot[2] \in class.commands
      [] slot[1] = Event_raw -> slot[2] \in class.rawhooks
      [] OTHER -> slot[2] \in Range(class.hooks)

\* The class declares an interest in the event the dispatch d delivers.
Subscribes(class, d) ==
    Declares(class, <<IF d.kind \in simple_events THEN "" ELSE d.kind, d.key>>)

\* The kernel holds instance i for the plug name `plugname`.
HeldFor(plugname) ==
    {i \in Held(Kernel) : Class(created[i]).name = plugname}

\* C1: an instance is in an entry of the hook tables if and only if it is
\* the instance stored under its name in self.plugs and its class declared
\* that entry: no orphaned subscription, no active plug without its hooks.
C1_HookTablesMatchActivePlugs ==
    \A i \in Instances :
        created[i] # Free =>
            \A k \in DOMAIN Slots :
                InSlot(Kernel, i, Slots[k])
                <=> /\ Active(Kernel, Class(created[i]).name) = i
                    /\ Declares(Class(created[i]), Slots[k])

\* C2: a load of a name under which an instance is already active fails
\* with AlreadyLoaded and leaves self.plugs and the hook tables as they were.
C2_LoadOfActiveNameFails ==
    [][(last' # last /\ last'.op = "load" /\ last'.old # 0)
         => /\ last'.exc = "AlreadyLoaded"
            /\ plugs' = plugs
            /\ hooks' = hooks]_vars

\* C3: once a reload has replaced the instance of a loaded plug, the old
\* instance is in no table any more, and the dispatch of the next event the
\* plug subscribes to invokes the handler of the new instance exactly once.
\* (Stated for a kernel whose tables hold active instances only.)
C3_DispatchAfterReloadReachesNewInstance ==
    /\ (last.op = "reload" /\ last.age = 0 /\ last.exc = NoExc /\ last.old # 0)
          => last.old \notin Held(Kernel)
    /\ (/\ pc = "done" /\ disp.kind # ""
        /\ last.op = "reload" /\ last.age = 1
        /\ Subscribes(Class(created[last.new]), disp)
        /\ \A i \in Held(Kernel) : Active(Kernel, Class(created[i]).name) = i)
          => calls[last.new] = 1

\* C4: when the handler of a subscribed plug raises during a dispatch, the
\* dispatch does not raise and every other plug of the subscriber set has its
\* handler invoked.
C4_HandlerFaultIsIsolated ==
    (pc = "done" /\ disp.faulty # 0)
       => /\ disp.exc = NoExc
          /\ \A p \in disp.snap \ {disp.faulty} : calls[p] = 1

\* C5: a command or raw dispatch in which a handler has loaded or removed a
\* plug does not raise, and it invokes every plug of the subscriber set it
\* started with exactly once and no other plug.
C5_KeyedDispatchSurvivesMutation ==
    (/\ pc = "done" /\ disp.kind \in {Event_command, Event_raw}
     /\ last.op # "none" /\ last.age = 0 /\ last.old # last.new)
       => /\ disp.exc = NoExc
          /\ \A i \in Instances : calls[i] = IF i \in disp.snap THEN 1 ELSE 0

\* C6: a dispatch of a simple event in which no handler raises does not raise
\* either, whatever the handlers load or remove, and it invokes every plug
\* subscribed at its start exactly once.
C6_CategoryDispatchSurvivesMutation ==
    (pc = "done" /\ disp.kind \in simple_events /\ disp.faulty = 0)
       => /\ disp.exc = NoExc
          /\ \A p \in disp.snap : calls[p] = 1

\* C7: remove_plug of a name that is not in self.plugs raises KeyError and
\* changes nothing: no cleanup() is run, self.plugs and the hook tables are
\* after the call what they were before it.
C7_RemoveOfAbsentNameChangesNothing ==
    [][(last' # last /\ last'.op = "remove" /\ last'.old = 0)
         => /\ last'.exc = "KeyError"
            /\ plugs' = plugs
            /\ hooks' = hooks
            /\ cleanups' = cleanups
            /\ created' = created]_vars

\* C7's case: plugs are loaded, and a remove_plug of a name that is not
\* among them has just raised KeyError.
C7_Witness ==
    /\ pc = "done" /\ last.op = "remove" /\ last.old = 0
    /\ last.exc = "KeyError"
    /\ last.name \notin DOMAIN plugs
    /\ DOMAIN plugs # {}

\* C8: when cleanup() of the plug raises during remove_plug, the call does
\* not raise and the removal completes: the instance is in no hook table and
\* its name is no key of self.plugs.
C8_CleanupFailureDoesNotBlockRemoval ==
    (/\ last.op = "remove" /\ last.age = 0 /\ last.old # 0
     /\ Class(created[last.old]).cleanup_raises)
       => /\ last.exc = NoExc
          /\ last.new = 0
          /\ last.old \notin Held(Kernel)

\* C9: cleanup() runs exactly once on an instance: never twice, and by the
\* time the kernel has let go of the instance it has run.
C9_CleanupExactlyOnce ==
    \A i \in Instances :
        created[i] # Free =>
            /\ cleanups[i] <= 1
            /\ i \notin Held(Kernel) => cleanups[i] = 1

\* C10: after a reload of a loaded plug whose load step failed, the name is
\* no key of self.plugs, no instance of that plug is in any hook table, and
\* the failure went to the caller or to the user that asked.
C10_FailedReloadLeavesPlugUnloaded ==
    (last.op = "reload" /\ last.age = 0 /\ last.old # 0 /\ last.stage = "load")
       => /\ last.new = 0
          /\ last.name \notin DOMAIN plugs
          /\ HeldFor(last.name) = {}
          /\ \/ disp.exc = last.exc
             \/ "PRIVMSG" \in Range(sent)

\* C11 as the claim has it: a reload of a name that is not a key of
\* self.plugs, here one whose module is on disk and loads, yields KeyError
\* (NotFound) and does not load the plug.
C11_ReloadOfAbsentNameFails ==
    (last.op = "reload" /\ last.age = 0 /\ last.old = 0
       /\ last.module = Working(last.name))
       => /\ last.exc = "KeyError"
          /\ last.new = 0
          /\ last.name \notin DOMAIN plugs

\* C11, amended: a reload of a name that is not a key of self.plugs does not
\* yield KeyError: the KeyError of the remove step is caught and the load
\* step is run; when the load step succeeds the name is a key of self.plugs
\* afterwards, under a new instance that is in every entry its class declares.
C11_ReloadOfAbsentNameLoadsIt ==
    (last.op = "reload" /\ last.age = 0 /\ last.old = 0)
       => /\ last.exc # "KeyError"
          /\ last.stage # "remove"
          /\ last.module # ""
          /\ last.exc = NoExc
                => /\ last.new # 0
                   /\ Active(Kernel, last.name) = last.new
                   /\ \A k \in DOMAIN Slots :
                         Declares(Class(created[last.new]), Slots[k])
                            => InSlot(Kernel, last.new, Slots[k])

\* C11's case: `!reload A` while no plug A was loaded has loaded A.
C11_Witness ==
    /\ pc = "done" /\ disp.kind = Event_command /\ disp.key = "reload"
    /\ last.op = "reload" /\ last.age = 0 /\ last.old = 0
    /\ last.exc = NoExc /\ last.new # 0
    /\ Active(Kernel, last.name) = last.new

\* C12: a load_plug of a name for which no module is found raises
\* ImportError and leaves self.plugs, every hook table and the set of plug
\* instances as they were before the call.
C12_LoadOfMissingModuleChangesNothing ==
    [][(last' # last /\ last'.op = "load" /\ last'.module = NoModule)
         => /\ last'.exc = "ImportError"
            /\ plugs' = plugs
            /\ hooks' = hooks
            /\ created' = created
            /\ cleanups' = cleanups]_vars

\* C12's case: plugs are loaded, and a load_plug that found no module has
\* just raised ImportError.
C12_Witness ==
    /\ pc = "done" /\ last.op = "load" /\ last.module = NoModule
    /\ last.exc = "ImportError"
    /\ DOMAIN plugs # {}

\* C13: a remove_plug that succeeds takes the removed instance out of every
\* entry of the three hook tables and leaves the entries of the other
\* instances as they were; and a dispatch invokes a handler only on an
\* instance that is in the dispatched entry, or was when the dispatch began,
\* so that no later dispatch invokes the removed instance.
C13_RemovedInstanceIsUnsubscribed ==
    [][/\ (last' # last /\ last'.op = "remove" /\ last'.exc = NoExc
             /\ last'.old # 0)
          => \A i \in Instances, k \in DOMAIN Slots :
                InSlot(Kernel, i, Slots[k])'
                <=> (i # last'.old /\ InSlot(Kernel, i, Slots[k]))
       /\ \A i \in Instances :
             calls'[i] > calls[i]
                => i \in IF pc = "idle" THEN Subscribers(Kernel, disp')
                         ELSE disp.snap \cup Subscribers(Kernel, disp)]_vars

\* C13's case: a plug has just been removed from entries in which another
\* plug remains.
C13_Witness ==
    /\ pc = "done" /\ last.op = "remove" /\ last.age = 0
    /\ last.exc = NoExc /\ last.old # 0 /\ last.old \notin Held(Kernel)
    /\ \E k \in DOMAIN Slots :
          /\ Declares(Class(created[last.old]), Slots[k])
          /\ \E i \in Instances : InSlot(Kernel, i, Slots[k])

\* C14: when the one plug subscribed to a command reloads itself from within
\* its handler of that command and the reload succeeds, the dispatch in
\* flight ends without an exception.
C14_SelfReloadInHandlerCompletes ==
    (/\ pc = "done" /\ disp.kind = Event_command
     /\ last.op = "reload" /\ last.age = 0 /\ last.exc = NoExc
     /\ last.old # 0 /\ disp.snap = {last.old})
       => disp.exc = NoExc

\* C15: a dispatch that has ended has invoked every plug that was subscribed
\* to the dispatched entry when it began exactly once; stated of dispatches
\* whose subscribers are all active plugs.
C15_EverySubscriberInvokedOnce ==
    (pc = "done" /\ disp.kind # ""
       /\ disp.snap \subseteq {plugs[n] : n \in DOMAIN plugs})
       => \A plug \in disp.snap : calls[plug] = 1

\* C16: add_callback returns True and has the plug in the entry for a simple
\* event; for every other event value, Event.command and Event.raw among
\* them, it returns False, raises nothing and leaves the tables as they were.
C16_AddCallbackRejectsOtherEvents ==
    [][(last' # last /\ last'.op = "add_callback")
         => IF last'.name \in simple_events
            THEN /\ last'.exc = NoExc /\ last'.ret = "True"
                 /\ last'.new \in hooks'[last'.name]
            ELSE /\ last'.exc = NoExc /\ last'.ret = "False"
                 /\ hooks' = hooks]_vars

\* C17: a successful connect resets the retry counter; once the counter
\* exceeds a configured maximum the process has stopped; and while it does
\* not, a factory that is not connected and was not told to shut down is
\* connecting, with another attempt scheduled.
C17_ExceededRetriesStopTheProcess ==
    /\ conn \in {"made", "signedon"} => retries = 0
    /\ (maxRetries # NoMax /\ retries > maxRetries) => conn = "stopped"
    /\ (/\ maxRetries = NoMax \/ retries <= maxRetries
        /\ conn \notin {"made", "signedon"} /\ ~shuttingdown)
          => conn = "connecting"

\* C18: when the connection is lost the process stops if shutdown was
\* requested, and is connecting again if it was not; once stopped, nothing
\* follows.
C18_DisconnectFollowsShutdownIntent ==
    [][/\ (conn \in {"made", "signedon"} /\ conn' \notin {"made", "signedon"})
             => conn' = IF shuttingdown THEN "stopped" ELSE "connecting"
       /\ conn = "stopped" => conn' = "stopped"]_vars

\* C19: when a call of shutdown has ended, by return or by exception, the
\* factory's shuttingdown is set, QUIT has been sent and cleanup has been
\* called on every plug of self.plugs.
C19_ShutdownSurvivesCleanupFailure ==
    (last.op = "shutdown" /\ last.age = 0)
       => /\ shuttingdown
          /\ "QUIT" \in Range(sent)
          /\ \A n \in DOMAIN plugs : cleanups[plugs[n]] >= 1

\* C20: while handlers of the dispatch under way are still to be called, no
\* shutdown has been carried out: no handler's call of shutdown has run,
\* shuttingdown is not set and QUIT has not been sent; stated of dispatches
\* whose subscribers are all active plugs.
C20_ShutdownWaitsForDispatch ==
    (pc = "dispatch" /\ disp.to_call # {} /\ disp.snap \subseteq Range(plugs))
       => /\ last.op # "shutdown"
          /\ ~shuttingdown
          /\ "QUIT" \notin Range(sent)

\* The module is found, its Plug() returns and its hook_events() returns.
Loadable(module) ==
    /\ module # NoModule
    /\ ~Class(module).init_raises
    /\ \A k \in DOMAIN Class(module).hooks : Class(module).hooks[k] \in simple_events

\* The hooks the module's class lists are all simple events.
HooksInOrder(module) ==
    module = NoModule
    \/ \A k \in DOMAIN Class(module).hooks : Class(module).hooks[k] \in simple_events

\* C22: when load_plugs has ended, by return or by exception, the keys of
\* self.plugs are exactly the configured names whose load succeeds: a plug
\* that fails to load does not keep those listed after it from being loaded.
\* Stated of configured plugs whose hook lists are in order.
C22_StartupLoadsEveryLoadablePlug ==
    (last.op = "load_plugs"
       /\ \A j \in DOMAIN config : HooksInOrder(last.modules[j]))
       => DOMAIN plugs = {config[i] : i \in {j \in DOMAIN config :
                                               Loadable(last.modules[j])}}

\* C25: a load_plug that found its module and then raised, in Plug() or in
\* hook_events(), leaves self.plugs and every hook table as they were before
\* the call: the name is not a new key and the failed instance is in no
\* entry.
C25_FailedLoadLeavesNothingBehind ==
    [][(/\ last' # last /\ last'.op = "load"
        /\ last'.module # NoModule /\ last'.exc # NoExc)
          => plugs' = plugs /\ hooks' = hooks]_vars

\* C23: a step that invokes only handlers of Core, for the command quit, raw
\* or reload sent by a user whose power is below 10, leaves self.plugs, the
\* hook tables, the plug instances, factory.shuttingdown and the lines sent
\* as they were, whatever the arguments.
C23_AdminCommandsNeedPower ==
    [][(/\ disp'.kind = Event_command /\ disp'.key \in AdminCommands
        /\ disp'.power < AdminPower
        /\ \E i \in Instances : calls'[i] > calls[i]
        /\ \A i \in Instances :
              calls'[i] > calls[i] => Class(created[i]).name = "Core")
          => /\ plugs' = plugs /\ hooks' = hooks
             /\ created' = created /\ cleanups' = cleanups
             /\ shuttingdown' = shuttingdown /\ sent' = sent]_vars

\* C23's case: `!reload` with two plug names from a user of power 0 has been
\* handled by Core.
C23_Witness ==
    /\ pc = "done" /\ disp.kind = Event_command /\ disp.key = "reload"
    /\ disp.power < AdminPower /\ Len(disp.names) = 2 /\ disp.exc = NoExc
    /\ \E i \in Instances : calls[i] = 1 /\ Class(created[i]).name = "Core"

\* C24: a handler is invoked only on an instance that is a value of
\* self.plugs at that moment.  Stated of moments at which every instance in
\* the tables is a value of self.plugs or has been cleaned up.
C24_OnlyActivePlugsAreInvoked ==
    [][\A i \in Instances :
          (/\ calls'[i] > calls[i]
           /\ \A j \in Held(Kernel) : j \in Range(plugs) \/ cleanups[j] > 0)
             => i \in Range(plugs)]_vars

\* The dispatches a line has had, the one under way or just over included.
Dispatched(d) ==
    [i \in 1..(Len(d.line.log) + 1) |->
        IF i <= Len(d.line.log) THEN d.line.log[i].kind ELSE d.kind]

\* The dispatches C21 gives a line: its category, then command or else
\* addressed, then raw.
InOrder(line) ==
    <<line.target>>
    \o (IF line.text \in {"prefix", "both"} THEN <<Event_command>>
        ELSE IF line.text = "nick" THEN <<Event_addressed>>
        ELSE <<>>)
    \o <<Event_raw>>

\* C21: the dispatches of a PRIVMSG line are made in the order category,
\* then command (for a text that starts with the command prefix) or else
\* addressed (for one that starts with the nickname), then raw; each is over
\* before the next begins, command and addressed are never both made, and
\* when the line has been handled every one of them has been made.
C21_LineDispatchesInOrder ==
    disp.line.target # ""
       => /\ Len(Dispatched(disp)) <= Len(InOrder(disp.line))
          /\ \A i \in DOMAIN Dispatched(disp) :
                Dispatched(disp)[i] = InOrder(disp.line)[i]
          /\ (pc = "done" /\ disp.line.todo = <<>>)
                => Dispatched(disp) = InOrder(disp.line)

====
